---- MODULE Spec2Model ----
(***************************************************************************)
(* Model of the disaster-recovery backup engine of the Kamailio tooling    *)
(* (src/kamailio_disaster_recovery.py): create_backup, _encrypt_backup,    *)
(* _upload_remote_backup, rotate_backups, restore_backup,                   *)
(* disaster_recovery_workflow and main.                                     *)
(*                                                                         *)
(* The backup store is a directory: a function from file names to file     *)
(* attributes.  A file name is a path, modelled as the sequence of its     *)
(* parts; a time is a number of clock ticks, the resolution at which the   *)
(* program compares datetime values.  Every invocation of main is a        *)
(* process with its own locals; the store, the target filesystem and the   *)
(* clock are shared.  Outcomes of external commands and of filesystem      *)
(* calls are chosen nondeterministically among those the call can have.    *)
(***************************************************************************)
EXTENDS Integers, Sequences, FiniteSets, TLC

VARIABLES
    config,   \* self.config, loaded once by __init__
    exists,   \* the component paths for which os.path.exists is true
    store,    \* the directory self.backup_base_dir: file name -> attributes
    fsys,     \* what restores have unpacked under '/': arcname -> source
    restarts, \* number of successful 'systemctl restart kamailio'
    now,      \* the wall clock, in ticks
    proc      \* per invocation of main: its position and its locals

vars == <<config, exists, store, fsys, restarts, now, proc>>

(***************************************************************************)
(* Bounds of the model.                                                    *)
(***************************************************************************)
MaxEntries == 3      \* entries already in the store when a process starts
StartTime == 3       \* the clock when the processes start; older mtimes are 0..StartTime
MaxTicks == 1        \* ticks the clock may advance while the processes run
MaxRetention == 1    \* backup_retention_days ranges over 0..MaxRetention
TicksPerDay == 2     \* the length of a day on the scaled clock
TicksPerSec == 2     \* the length of a second on the scaled clock

Procs == {"p1", "p2"}

NoPath == <<>>

(***************************************************************************)
(* Paths.                                                                  *)
(***************************************************************************)
EtcKamailio == <<"etc", "kamailio">>
VarLibKamailio == <<"var", "lib", "kamailio">>
VarLogKamailio == <<"var", "log", "kamailio">>
EtcHosts == <<"etc", "hosts">>

\* os.path.basename(component)
basename(path) == path[Len(path)]

\* datetime.now().strftime("%Y%m%d_%H%M%S"): the clock truncated to seconds
strftime(t) == t \div TicksPerSec

\* f"kamailio_backup_{backup_type}_{timestamp}.tar.gz" joined to the store
backup_filename(backup_type, t) ==
    <<"kamailio_backup", backup_type, strftime(t), "tar.gz">>

\* the file gpg -c writes beside its input
gpg_output(path) == Append(path, ".gpg")

\* backup_path.endswith('.gpg')
endswith_gpg(path) == Len(path) > 0 /\ path[Len(path)] = ".gpg"

\* backup_path[:-4]
strip_gpg(path) == SubSeq(path, 1, Len(path) - 1)

\* an entry that was in the store before the process started: the artifact
\* of the k-th second before the clock's origin
OldName(k) == <<"kamailio_backup", "full", -k, "tar.gz">>
IsEarlier(f) == f[3] < 0

(***************************************************************************)
(* Configuration.                                                          *)
(***************************************************************************)
\* _get_default_config
DefaultComponents == <<EtcKamailio, VarLibKamailio, VarLogKamailio>>

ComponentLists ==
    { DefaultComponents,
      <<EtcKamailio, EtcHosts>>,
      <<EtcHosts, EtcKamailio, EtcHosts>> }

Range(s) == { s[k] : k \in DOMAIN s }

\* a faulty variant: the retention added to the clock instead of subtracted
cutoff_date_ahead(t, retention_days) == t + retention_days * TicksPerDay
\* a faulty variant: the retention taken in ticks instead of days
cutoff_date_short(t, retention_days) == t - retention_days
\* datetime.now() - timedelta(days=retention_days)
cutoff_date(t, retention_days) == t - retention_days * TicksPerDay

\* a faulty variant: a comparison that is not strict
is_old_or_equal(mod_time, cutoff) == mod_time <= cutoff
\* mod_time < cutoff_date
is_old(mod_time, cutoff) == mod_time < cutoff

(***************************************************************************)
(* Processes.                                                              *)
(***************************************************************************)
NoArgs == [backup |-> FALSE, restore |-> NoPath, rotate |-> FALSE]

\* the locals of an invocation of main that has just parsed its arguments
NewProc(args) ==
    [ pc |-> "main", args |-> args, phase |-> 0, caller |-> "none",
      exit |-> -1, error |-> "none",
      \* create_backup
      backup_path |-> NoPath, i |-> 0, built |-> FALSE, warned |-> {},
      enc |-> "none", upl |-> "none", handed |-> NoPath,
      returned |-> FALSE, result |-> NoPath,
      \* rotate_backups
      rot |-> "none", pass_now |-> 0, cutoff |-> 0, listing |-> {}, todo |-> {},
      cur |-> NoPath, mod_time |-> 0, removed |-> {}, failed_on |-> {},
      denied |-> {},
      \* restore_backup
      stage |-> "Idle", r_path |-> NoPath, dec |-> "none", extracted |-> 0,
      \* disaster_recovery_workflow
      wf |-> "none",
      \* __init__: the file found at config_path
      config_file |-> [state |-> "none", keys |-> {}, content |-> <<>>] ]

\* an invocation that does not run
OffProc == [ NewProc(NoArgs) EXCEPT !.pc = "exit", !.exit = 0 ]

\* the update of one process's locals
Upd(p, rec) == [proc EXCEPT ![p] = rec]

\* a faulty variant: the workflow swallows the exception and goes on to rotate
raise_swallowed(pr, err) ==
    [ pr EXCEPT !.error = err,
                !.pc = IF pr.caller = "workflow" THEN "rotate_backups" ELSE "exit",
                !.exit = IF pr.caller = "workflow" THEN @ ELSE 1 ]
\* an exception that leaves main: the interpreter exits with status 1
\* (create_backup, restore_backup and disaster_recovery_workflow log and re-raise)
Raise(pr, err) ==
    [ pr EXCEPT !.pc = "exit", !.exit = 1, !.error = err,
                !.wf = IF @ = "running" THEN "failed" ELSE @ ]

(***************************************************************************)
(* Files.                                                                  *)
(***************************************************************************)
Put(f, k, v) == [x \in (DOMAIN f) \cup {k} |-> IF x = k THEN v ELSE f[x]]
\* a faulty variant: a removal that leaves the file
Del_nothing(f, k) == f
Del(f, k) == [x \in (DOMAIN f) \ {k} |-> f[x]]
NoFiles == [x \in {} |-> 0]

\* an artifact left in the store by an earlier run
OldFile(t) == [mtime |-> t, members |-> <<>>, sealed |-> TRUE, enc |-> FALSE]

OldStores(n) ==
    UNION { [ { OldName(k) : k \in S } -> { OldFile(t) : t \in 0..StartTime } ]
            : S \in SUBSET (1..n) }

(***************************************************************************)
(* The clock.                                                              *)
(***************************************************************************)
Tick ==
    /\ now < StartTime + MaxTicks
    /\ \E p \in Procs : proc[p].pc # "exit"
    /\ now' = now + 1
    /\ UNCHANGED <<config, exists, store, fsys, restarts, proc>>

(***************************************************************************)
(* main: the four ifs of the command line, in order.                       *)
(***************************************************************************)
any_flag(args) == args.backup \/ args.restore # NoPath \/ args.rotate

main_target(args, phase) ==
    IF phase <= 0 /\ args.backup THEN <<"create_backup", 1>>
    ELSE IF phase <= 1 /\ args.restore # NoPath THEN <<"restore_backup", 2>>
    ELSE IF phase <= 2 /\ args.rotate THEN <<"rotate_backups", 3>>
    ELSE IF phase <= 3 /\ ~any_flag(args) THEN <<"workflow", 4>>
    ELSE <<"exit", 4>>

main(p) ==
    /\ proc[p].pc = "main"
    /\ LET t == main_target(proc[p].args, proc[p].phase) IN
       proc' = Upd(p,
         IF t[1] = "exit"
         THEN [proc[p] EXCEPT !.pc = "exit", !.exit = 0, !.phase = t[2]]
         ELSE IF t[1] = "workflow"
         \* disaster_recovery_workflow: its first statement is create_backup()
         THEN [proc[p] EXCEPT !.pc = "create_backup", !.caller = "workflow",
                              !.wf = "running", !.phase = t[2]]
         ELSE [proc[p] EXCEPT !.pc = t[1], !.caller = "main", !.phase = t[2]])
    /\ UNCHANGED <<config, exists, store, fsys, restarts, now>>

(***************************************************************************)
(* rotate_backups.                                                         *)
(***************************************************************************)
\* rotate_backups returns (it never raises: the except of line 223 only logs);
\* in the workflow the next statement logs the completion and returns to main
rotate_return(pr, how) ==
    [ pr EXCEPT !.rot = how, !.pc = "main", !.cur = NoPath,
                !.wf = IF pr.caller = "workflow" THEN "completed" ELSE @ ]

\* lines 208-212: the cutoff, and the listing of the store
rotate_start(p) ==
    /\ proc[p].pc = "rotate_backups"
    /\ proc' = Upd(p, [proc[p] EXCEPT
            !.pc = "rotate_loop", !.rot = "scanning", !.pass_now = now,
            !.cutoff = cutoff_date(now, config.backup_retention_days),
            !.listing = { [name |-> f, mtime |-> store[f].mtime] : f \in DOMAIN store },
            !.todo = DOMAIN store,
            !.removed = {}, !.failed_on = {}, !.denied = {}])
    /\ UNCHANGED <<config, exists, store, fsys, restarts, now>>

\* lines 212-216: the next entry of the listing (os.listdir gives no order)
\* and its modification time; the loop ends when the listing is exhausted
rotate_stat(p) ==
    /\ proc[p].pc = "rotate_loop"
    /\ IF proc[p].todo = {}
       THEN proc' = Upd(p, rotate_return(proc[p], "finished"))
       ELSE \E f \in proc[p].todo :
              IF f \in DOMAIN store
              THEN proc' = Upd(p, [proc[p] EXCEPT
                       !.pc = "rotate_check", !.cur = f,
                       !.mod_time = store[f].mtime, !.todo = @ \ {f}])
              \* os.path.getmtime raises FileNotFoundError
              ELSE proc' = Upd(p, rotate_return(
                       [proc[p] EXCEPT !.failed_on = @ \cup {f}, !.todo = @ \ {f}],
                       "aborted"))
    /\ UNCHANGED <<config, exists, store, fsys, restarts, now>>

\* lines 219-224: the comparison and os.remove, which may raise
rotate_remove(p) ==
    /\ proc[p].pc = "rotate_check"
    /\ LET f == proc[p].cur IN
       IF ~is_old(proc[p].mod_time, proc[p].cutoff)
       THEN /\ proc' = Upd(p, [proc[p] EXCEPT !.pc = "rotate_loop", !.cur = NoPath])
            /\ UNCHANGED store
       ELSE \E ok \in BOOLEAN :
              IF ok /\ f \in DOMAIN store
              THEN /\ store' = Del(store, f)
                   /\ proc' = Upd(p, [proc[p] EXCEPT
                          !.pc = "rotate_loop", !.cur = NoPath,
                          !.removed = @ \cup {[name |-> f, mtime |-> store[f].mtime]}])
              \* os.remove raises: the file is gone (FileNotFoundError) or it
              \* cannot be removed (PermissionError, IsADirectoryError)
              ELSE /\ proc' = Upd(p, rotate_return(
                          [proc[p] EXCEPT
                             !.failed_on = @ \cup {f},
                             !.denied = IF f \in DOMAIN store THEN @ \cup {f} ELSE @],
                          "aborted"))
                   /\ UNCHANGED store
    /\ UNCHANGED <<config, exists, fsys, restarts, now>>

(***************************************************************************)
(* Configurations and initial states.                                      *)
(***************************************************************************)
\* _get_default_config, with the retention window of the run
BaseConfig(retention_days) ==
    [ backup_retention_days |-> retention_days,
      backup_type |-> "full",
      components_to_backup |-> DefaultComponents,
      encryption |-> [enabled |-> TRUE, method |-> "gpg"],
      remote_backup |-> [enabled |-> FALSE, type |-> "s3", complete |-> TRUE] ]

\* --rotate over a store that holds earlier artifacts
InitRotate ==
    /\ config \in { BaseConfig(r) : r \in 0..MaxRetention }
    /\ exists = Range(DefaultComponents)
    /\ store \in OldStores(MaxEntries)
    /\ fsys = NoFiles
    /\ restarts = 0
    /\ now = StartTime
    /\ proc = [p \in Procs |->
                 IF p = "p1" THEN NewProc([NoArgs EXCEPT !.rotate = TRUE])
                 ELSE OffProc]

NextRotate ==
    \/ Tick
    \/ \E p \in Procs : main(p)
    \/ \E p \in Procs : rotate_start(p)
    \/ \E p \in Procs : rotate_stat(p)
    \/ \E p \in Procs : rotate_remove(p)

SpecRotate == InitRotate /\ [][NextRotate]_vars

(***************************************************************************)
(* create_backup, _encrypt_backup and _upload_remote_backup.               *)
(***************************************************************************)
\* what a subprocess.run(..., check=True) of an external tool can do: exit 0,
\* exit non-zero (CalledProcessError), or not start because the tool is not
\* installed (FileNotFoundError)
ToolOutcomes == {"ok", "CalledProcessError", "FileNotFoundError"}

\* the file tarfile.open(backup_path, "w:gz") creates or truncates
NewArchive(t) == [mtime |-> t, members |-> <<>>, sealed |-> FALSE, enc |-> FALSE]

\* tar.add(component, arcname=os.path.basename(component))
tar_add(file, component, t) ==
    [ file EXCEPT !.members = Append(@, [src |-> component, arcname |-> basename(component)]),
                  !.mtime = t ]

\* a write through the open archive: a file unlinked meanwhile stays unlinked
WriteOpen(path, file) ==
    IF path \in DOMAIN store THEN [store EXCEPT ![path] = file] ELSE store

\* lines 124-129: the backup type and the timestamped file name
create_backup(p) ==
    /\ proc[p].pc = "create_backup"
    /\ proc' = Upd(p, [proc[p] EXCEPT
            !.pc = "cb_open",
            !.backup_path = backup_filename(config.backup_type, now)])
    /\ UNCHANGED <<config, exists, store, fsys, restarts, now>>

\* line 133: tarfile.open(backup_path, "w:gz")
cb_open(p) ==
    /\ proc[p].pc = "cb_open"
    /\ \E ok \in BOOLEAN :
         IF ok
         THEN /\ store' = Put(store, proc[p].backup_path, NewArchive(now))
              /\ proc' = Upd(p, [proc[p] EXCEPT !.pc = "cb_walk", !.i = 1])
         ELSE /\ proc' = Upd(p, Raise(proc[p], "archive"))
              /\ UNCHANGED store
    /\ UNCHANGED <<config, exists, fsys, restarts, now>>

\* lines 134-138: one component of the list
cb_walk(p) ==
    /\ proc[p].pc = "cb_walk"
    /\ proc[p].i <= Len(config.components_to_backup)
    /\ LET component == config.components_to_backup[proc[p].i]
           path == proc[p].backup_path
       IN IF component \in exists
          THEN \E ok \in BOOLEAN :
                 IF ok
                 THEN /\ store' = IF path \in DOMAIN store
                                  THEN WriteOpen(path, tar_add(store[path], component, now))
                                  ELSE store
                      /\ proc' = Upd(p, [proc[p] EXCEPT !.i = @ + 1])
                 \* tar.add raises: the with statement closes the file as it is
                 ELSE /\ proc' = Upd(p, Raise(proc[p], "archive"))
                      /\ UNCHANGED store
          ELSE /\ proc' = Upd(p, [proc[p] EXCEPT
                      !.i = @ + 1, !.warned = @ \cup {component}])
               /\ UNCHANGED store
    /\ UNCHANGED <<config, exists, fsys, restarts, now>>

\* line 133, the end of the with statement: the archive is closed
cb_close(p) ==
    /\ proc[p].pc = "cb_walk"
    /\ proc[p].i > Len(config.components_to_backup)
    /\ LET path == proc[p].backup_path IN
       \E ok \in BOOLEAN :
         IF ok
         THEN /\ store' = IF path \in DOMAIN store
                          THEN WriteOpen(path, [store[path] EXCEPT !.sealed = TRUE, !.mtime = now])
                          ELSE store
              /\ proc' = Upd(p, [proc[p] EXCEPT !.pc = "cb_encrypt", !.built = TRUE])
         ELSE /\ proc' = Upd(p, Raise(proc[p], "archive"))
              /\ UNCHANGED store
    /\ UNCHANGED <<config, exists, fsys, restarts, now>>

\* lines 141-142 and 161-170, 177-178: gpg -c on the archive
cb_encrypt(p) ==
    /\ proc[p].pc = "cb_encrypt"
    /\ LET path == proc[p].backup_path IN
       IF ~config.encryption.enabled \/ config.encryption.method # "gpg"
       THEN /\ proc' = Upd(p, [proc[p] EXCEPT !.pc = "cb_upload"])
            /\ UNCHANGED store
       ELSE \E outcome \in ToolOutcomes :
              CASE outcome = "ok" /\ path \in DOMAIN store ->
                     /\ store' = Put(store, gpg_output(path),
                                     [store[path] EXCEPT !.enc = TRUE, !.mtime = now])
                     /\ proc' = Upd(p, [proc[p] EXCEPT !.pc = "cb_remove", !.enc = "written"])
                [] outcome = "FileNotFoundError" ->
                     /\ proc' = Upd(p, Raise([proc[p] EXCEPT !.enc = "failed"], "encrypt"))
                     /\ UNCHANGED store
                [] OTHER ->
                     /\ proc' = Upd(p, [proc[p] EXCEPT !.pc = "cb_upload", !.enc = "failed"])
                     /\ UNCHANGED store
    /\ UNCHANGED <<config, exists, fsys, restarts, now>>

\* lines 172-175: os.remove of the unencrypted archive
cb_remove(p) ==
    /\ proc[p].pc = "cb_remove"
    /\ LET path == proc[p].backup_path IN
       \E ok \in BOOLEAN :
         IF ok /\ path \in DOMAIN store
         THEN /\ store' = Del(store, path)
              /\ proc' = Upd(p, [proc[p] EXCEPT !.pc = "cb_upload", !.enc = "ok"])
         ELSE /\ proc' = Upd(p, Raise(proc[p], "encrypt"))
              /\ UNCHANGED store
    /\ UNCHANGED <<config, exists, fsys, restarts, now>>

\* create_backup returns backup_path (lines 148-149) to main or to the workflow,
\* whose next statement is rotate_backups()
cb_return(pr) ==
    [ pr EXCEPT !.returned = TRUE, !.result = pr.backup_path,
                !.pc = IF pr.caller = "workflow" THEN "rotate_backups" ELSE "main" ]

\* lines 145-149 and 186-202: aws s3 cp of backup_path, then the return
cb_upload(p) ==
    /\ proc[p].pc = "cb_upload"
    /\ LET path == proc[p].backup_path
           remote_config == config.remote_backup
       IN IF ~remote_config.enabled \/ remote_config.type # "s3"
          THEN proc' = Upd(p, cb_return(proc[p]))
          ELSE IF ~remote_config.complete
          \* remote_config['bucket'] raises KeyError
          THEN proc' = Upd(p, Raise([proc[p] EXCEPT !.upl = "failed"], "upload"))
          ELSE \E outcome \in ToolOutcomes :
                 CASE outcome = "ok" /\ path \in DOMAIN store ->
                        proc' = Upd(p, cb_return([proc[p] EXCEPT !.upl = "ok", !.handed = path]))
                   [] outcome = "FileNotFoundError" ->
                        proc' = Upd(p, Raise([proc[p] EXCEPT !.upl = "failed", !.handed = path],
                                             "upload"))
                   [] OTHER ->
                        proc' = Upd(p, cb_return([proc[p] EXCEPT !.upl = "failed", !.handed = path]))
    /\ UNCHANGED <<config, exists, store, fsys, restarts, now>>

(***************************************************************************)
(* --backup, or no flag (the workflow), over a store that may hold an      *)
(* earlier artifact.                                                       *)
(***************************************************************************)
EncryptionSettings ==
    { [enabled |-> FALSE, method |-> "gpg"],
      [enabled |-> TRUE, method |-> "gpg"],
      [enabled |-> TRUE, method |-> "aes"] }

RemoteSettings ==
    { [enabled |-> FALSE, type |-> "s3", complete |-> TRUE],
      [enabled |-> TRUE, type |-> "s3", complete |-> TRUE],
      [enabled |-> TRUE, type |-> "s3", complete |-> FALSE],
      [enabled |-> TRUE, type |-> "ftp", complete |-> TRUE] }

Configs ==
    { [ BaseConfig(r) EXCEPT !.components_to_backup = c,
                             !.encryption = e, !.remote_backup = u ] :
        r \in 0..MaxRetention, c \in ComponentLists,
        e \in EncryptionSettings, u \in RemoteSettings }

InitBackup ==
    /\ config \in Configs
    /\ \E missing \in SUBSET Range(config.components_to_backup) :
         /\ Cardinality(missing) <= 1
         /\ exists = Range(config.components_to_backup) \ missing
    /\ store \in OldStores(1)
    /\ fsys = NoFiles
    /\ restarts = 0
    /\ now = StartTime
    /\ \E args \in { NoArgs, [NoArgs EXCEPT !.backup = TRUE] } :
         proc = [p \in Procs |-> IF p = "p1" THEN NewProc(args) ELSE OffProc]

NextBackup ==
    \/ Tick
    \/ \E p \in Procs : main(p)
    \/ \E p \in Procs : create_backup(p)
    \/ \E p \in Procs : cb_open(p)
    \/ \E p \in Procs : cb_walk(p)
    \/ \E p \in Procs : cb_close(p)
    \/ \E p \in Procs : cb_encrypt(p)
    \/ \E p \in Procs : cb_remove(p)
    \/ \E p \in Procs : cb_upload(p)
    \/ \E p \in Procs : rotate_start(p)
    \/ \E p \in Procs : rotate_stat(p)
    \/ \E p \in Procs : rotate_remove(p)

SpecBackup == InitBackup /\ [][NextBackup]_vars

(***************************************************************************)
(* restore_backup.                                                         *)
(***************************************************************************)
\* a faulty variant: the failure is logged and the restore goes on with the
\* sibling path, as _encrypt_backup does for CalledProcessError
decrypt_failed_logged(pr) ==
    [ pr EXCEPT !.dec = "failed", !.pc = "rs_open", !.stage = "Unpacking",
                !.r_path = strip_gpg(pr.r_path) ]
\* lines 236-242 raise (gpg exits non-zero, or gpg is not installed): the
\* except of line 254 logs and re-raises
decrypt_failed(pr) ==
    Raise([pr EXCEPT !.dec = "failed", !.stage = "Failed"], "decrypt")

\* line 234: is the artifact encrypted, by its name
restore_backup(p) ==
    /\ proc[p].pc = "restore_backup"
    /\ proc' = Upd(p,
         IF endswith_gpg(proc[p].args.restore)
         THEN [proc[p] EXCEPT !.pc = "rs_decrypt", !.stage = "Decrypting",
                              !.r_path = proc[p].args.restore]
         ELSE [proc[p] EXCEPT !.pc = "rs_open", !.stage = "Unpacking",
                              !.r_path = proc[p].args.restore])
    /\ UNCHANGED <<config, exists, store, fsys, restarts, now>>

\* lines 235-243: gpg -d -o decrypted_path backup_path.  gpg exits 0 only for
\* an encrypted file it can read, and in batch mode it does not overwrite
rs_decrypt(p) ==
    /\ proc[p].pc = "rs_decrypt"
    /\ LET path == proc[p].r_path
           decrypted_path == strip_gpg(path)
       IN \E outcome \in ToolOutcomes :
            IF /\ outcome = "ok"
               /\ path \in DOMAIN store
               /\ store[path].enc
               /\ decrypted_path \notin DOMAIN store
            THEN /\ store' = Put(store, decrypted_path,
                                 [store[path] EXCEPT !.enc = FALSE, !.mtime = now])
                 /\ proc' = Upd(p, [proc[p] EXCEPT
                        !.pc = "rs_open", !.stage = "Unpacking", !.dec = "ok",
                        !.r_path = decrypted_path])
            ELSE /\ proc' = Upd(p, decrypt_failed(proc[p]))
                 /\ UNCHANGED store
    /\ UNCHANGED <<config, exists, fsys, restarts, now>>

\* line 246: tarfile.open(backup_path, "r:gz") raises for a missing file and
\* for a file that is no gzip stream
rs_open(p) ==
    /\ proc[p].pc = "rs_open"
    /\ LET path == proc[p].r_path IN
       \E ok \in BOOLEAN :
         IF ok /\ path \in DOMAIN store /\ ~store[path].enc
         THEN proc' = Upd(p, [proc[p] EXCEPT !.pc = "rs_extract", !.extracted = 0])
         ELSE proc' = Upd(p, Raise([proc[p] EXCEPT !.stage = "Failed"], "unpack"))
    /\ UNCHANGED <<config, exists, store, fsys, restarts, now>>

\* line 247: tar.extractall(path='/'), member after member; an archive that
\* was never closed ends in the middle of the stream
rs_extract(p) ==
    /\ proc[p].pc = "rs_extract"
    /\ LET path == proc[p].r_path
           members == IF path \in DOMAIN store THEN store[path].members ELSE <<>>
           k == proc[p].extracted + 1
       IN IF k <= Len(members)
          THEN \E ok \in BOOLEAN :
                 IF ok
                 THEN /\ fsys' = Put(fsys, members[k].arcname, members[k].src)
                      /\ proc' = Upd(p, [proc[p] EXCEPT !.extracted = k])
                 ELSE /\ proc' = Upd(p, Raise([proc[p] EXCEPT !.stage = "Failed"], "unpack"))
                      /\ UNCHANGED fsys
          ELSE /\ UNCHANGED fsys
               /\ proc' = Upd(p,
                    IF path \in DOMAIN store /\ store[path].sealed
                    THEN [proc[p] EXCEPT !.pc = "rs_restart", !.stage = "RestartingService"]
                    ELSE Raise([proc[p] EXCEPT !.stage = "Failed"], "unpack"))
    /\ UNCHANGED <<config, exists, store, restarts, now>>

\* lines 250-256: systemctl restart kamailio, check=True
rs_restart(p) ==
    /\ proc[p].pc = "rs_restart"
    /\ \E outcome \in ToolOutcomes :
         IF outcome = "ok"
         THEN /\ restarts' = restarts + 1
              /\ proc' = Upd(p, [proc[p] EXCEPT !.pc = "main", !.stage = "Done"])
         ELSE /\ proc' = Upd(p, Raise([proc[p] EXCEPT !.stage = "Failed"], "restart"))
              /\ UNCHANGED restarts
    /\ UNCHANGED <<config, exists, store, fsys, now>>

(***************************************************************************)
(* --restore of an artifact of an earlier run.                             *)
(***************************************************************************)
RECURSIVE Archived(_, _)
\* the members create_backup writes for the first n components of a list
Archived(components, n) ==
    IF n = 0 THEN NewArchive(0)
    ELSE tar_add(Archived(components, n - 1), components[n], 0)

\* the files an earlier run can have left under one name: a closed archive, an
\* archive that was never closed, and either of them encrypted
ArtifactFiles ==
    UNION { { [ Archived(c, n) EXCEPT !.sealed = (n = Len(c) /\ sealed), !.enc = enc ] :
                n \in 0..Len(c), sealed \in BOOLEAN, enc \in BOOLEAN } :
            c \in ComponentLists }

EarlierArtifact == backup_filename("full", 0)

InitRestore ==
    /\ config \in { BaseConfig(0) }
    /\ exists = Range(DefaultComponents)
    /\ \E names \in SUBSET { EarlierArtifact, gpg_output(EarlierArtifact) } :
         store \in [names -> ArtifactFiles]
    /\ fsys = NoFiles
    /\ restarts = 0
    /\ now = StartTime
    /\ \E path \in { EarlierArtifact, gpg_output(EarlierArtifact) } :
         proc = [p \in Procs |->
                   IF p = "p1" THEN NewProc([NoArgs EXCEPT !.restore = path])
                   ELSE OffProc]

NextRestore ==
    \/ Tick
    \/ \E p \in Procs : main(p)
    \/ \E p \in Procs : restore_backup(p)
    \/ \E p \in Procs : rs_decrypt(p)
    \/ \E p \in Procs : rs_open(p)
    \/ \E p \in Procs : rs_extract(p)
    \/ \E p \in Procs : rs_restart(p)

SpecRestore == InitRestore /\ [][NextRestore]_vars

(***************************************************************************)
(* Properties of rotate_backups.                                           *)
(***************************************************************************)
\* the names of a set of listing or removal records
Names(recs) == { r.name : r \in recs }

\* the cutoff the claims speak of: now - retentionDays, at the start of the pass
ClaimedCutoff(p) == proc[p].pass_now - config.backup_retention_days * TicksPerDay

\* C2: every entry a rotation pass has deleted had a last-modified time
\* strictly earlier than the cutoff (now - retentionDays) of that pass, and an
\* entry whose time equals the cutoff is still in the store, unchanged, when
\* the pass has ended.
C2_DeletedStrictlyOlder ==
    \A p \in Procs :
      /\ \A r \in proc[p].removed : r.mtime < ClaimedCutoff(p)
      /\ proc[p].rot \in {"finished", "aborted"} =>
           \A e \in proc[p].listing :
             e.mtime = ClaimedCutoff(p) =>
               /\ e.name \in DOMAIN store
               /\ store[e.name].mtime = e.mtime

\* a pass has ended that deleted an entry and met an entry exactly at the cutoff
C2_Witness ==
    \E p \in Procs :
      /\ proc[p].rot = "finished"
      /\ proc[p].removed # {}
      /\ \E e \in proc[p].listing : e.mtime = ClaimedCutoff(p)

\* C9: when a rotation pass has ended, every listed entry strictly older than
\* the cutoff other than the entries whose own operation failed has been
\* deleted by the pass (a failure on one entry does not abort the scan).
C9_FailureDoesNotAbortScan ==
    \A p \in Procs :
      proc[p].rot \in {"finished", "aborted"} =>
        \A e \in proc[p].listing :
          (e.mtime < ClaimedCutoff(p) /\ e.name \notin proc[p].failed_on) =>
            e.name \in Names(proc[p].removed)

\* C10: a rotation pass that ended without a failure on any entry has removed
\* exactly the listed entries whose last-modified time is strictly older than
\* now - retentionDays, and every other entry is in the store as it was.
C10_RemovesExactlyTheOld ==
    \A p \in Procs :
      (proc[p].rot = "finished" /\ proc[p].failed_on = {}) =>
        LET old == { e \in proc[p].listing : e.mtime < ClaimedCutoff(p) } IN
          /\ Names(proc[p].removed) = Names(old)
          /\ DOMAIN store = Names(proc[p].listing \ old)
          /\ \A e \in proc[p].listing \ old : store[e.name].mtime = e.mtime

\* a pass over entries younger than, exactly at and older than the cutoff
\* has ended without a failure
C10_Witness ==
    \E p \in Procs :
      /\ proc[p].rot = "finished" /\ proc[p].failed_on = {}
      /\ \E a, b, c \in proc[p].listing :
           /\ a.mtime < ClaimedCutoff(p)
           /\ b.mtime = ClaimedCutoff(p)
           /\ c.mtime > ClaimedCutoff(p)
           /\ a.name \notin DOMAIN store
           /\ b.name \in DOMAIN store /\ c.name \in DOMAIN store

(***************************************************************************)
(* Properties of create_backup and of the workflow.                        *)
(***************************************************************************)
\* the artifact of a run is in the store, unencrypted or encrypted
ArtifactPresent(p) ==
    \/ proc[p].backup_path \in DOMAIN store
    \/ gpg_output(proc[p].backup_path) \in DOMAIN store

\* C1: a workflow run that has ended has failed if and only if its archive
\* was not built; a run whose archive was built has ended in success with the
\* artifact returned by create_backup, whatever encryption, upload and
\* rotation did.
C1_WorkflowFailsOnlyOnBuildFailure ==
    \A p \in Procs :
      proc[p].wf \in {"completed", "failed"} =>
        /\ (proc[p].wf = "failed") <=> ~proc[p].built
        /\ proc[p].built => (proc[p].returned /\ proc[p].exit # 1)

\* C4: once encryption has succeeded the unencrypted archive is gone and the
\* encrypted file is in the store, and it is the encrypted file that is
\* handed to the upload and returned by create_backup.
C4_EncryptedArtifactOfRecord ==
    \A p \in Procs :
      (proc[p].enc = "ok" /\ proc[p].rot = "none") =>
        /\ proc[p].backup_path \notin DOMAIN store
        /\ gpg_output(proc[p].backup_path) \in DOMAIN store
        /\ proc[p].handed # NoPath => proc[p].handed = gpg_output(proc[p].backup_path)
        /\ proc[p].returned =>
             /\ proc[p].result = gpg_output(proc[p].backup_path)
             /\ proc[p].result \in DOMAIN store

\* C5: when the encryption step has failed, the unencrypted archive is still
\* in the store, the run has not failed because of it and goes on with the
\* unencrypted archive; and after a successful build the store always holds
\* the unencrypted or the encrypted form of the artifact.
C5_EncryptionFailureNotFatal ==
    \A p \in Procs :
      /\ (proc[p].enc = "failed" /\ proc[p].rot = "none") =>
           /\ proc[p].backup_path \in DOMAIN store
           /\ proc[p].error # "encrypt"
           /\ proc[p].handed # NoPath => proc[p].handed = proc[p].backup_path
           /\ proc[p].returned => proc[p].result = proc[p].backup_path
      /\ (proc[p].built /\ proc[p].rot = "none") => ArtifactPresent(p)

\* C6: when the upload has failed, the backup run does not fail because of
\* it: --backup exits with status 0, and the artifact of the run is in the
\* store.
C6_UploadFailureNotFatal ==
    \A p \in Procs :
      (proc[p].upl = "failed" /\ proc[p].rot = "none") =>
        /\ proc[p].error # "upload"
        /\ (proc[p].pc = "exit" /\ proc[p].args.backup) => proc[p].exit = 0
        /\ ArtifactPresent(p)

\* C7: when the archive builder has failed, the run has failed and the store
\* holds no file under the name of the run's artifact.
C7_NoPartialArtifact ==
    \A p \in Procs :
      proc[p].error = "archive" =>
        /\ proc[p].exit = 1
        /\ proc[p].backup_path \notin DOMAIN store

\* C8: when the archive has been closed, the run has produced one artifact,
\* whose members are exactly the listed components that exist, each under its
\* base name and no two components under the same name; every listed
\* component that does not exist has produced a warning and nothing else.
C8_ArtifactHoldsExistingComponents ==
    \A p \in Procs :
      (proc[p].pc = "cb_encrypt" /\ proc[p].built) =>
        LET listed == Range(config.components_to_backup)
            path == proc[p].backup_path
        IN /\ path \in DOMAIN store
           /\ Cardinality({ f \in DOMAIN store : ~IsEarlier(f) }) = 1
           /\ { m.src : m \in Range(store[path].members) } = listed \cap exists
           /\ \A m \in Range(store[path].members) : m.arcname = basename(m.src)
           /\ \A m, n \in Range(store[path].members) :
                m.src # n.src => m.arcname # n.arcname
           /\ proc[p].warned = listed \ exists

(***************************************************************************)
(* Properties of restore_backup.                                           *)
(***************************************************************************)
\* C3: when the artifact given to restore_backup carries the encrypted suffix
\* and its decryption has failed, the restore has failed at the decrypt stage,
\* no member of the archive has been unpacked and the service has not been
\* restarted.
C3_DecryptFailureLeavesFilesystem ==
    \A p \in Procs :
      (endswith_gpg(proc[p].args.restore) /\ proc[p].dec = "failed") =>
        /\ proc[p].pc = "exit" /\ proc[p].exit = 1
        /\ proc[p].error = "decrypt" /\ proc[p].stage = "Failed"
        /\ proc[p].extracted = 0
        /\ fsys = NoFiles
        /\ restarts = 0

\* the decryption of an encrypted artifact that holds members has failed
C3_Witness ==
    \E p \in Procs :
      /\ endswith_gpg(proc[p].args.restore)
      /\ proc[p].dec = "failed"
      /\ proc[p].args.restore \in DOMAIN store
      /\ store[proc[p].args.restore].enc
      /\ Len(store[proc[p].args.restore].members) > 0

\* C12: when the members of the artifact have been unpacked and the restart
\* of the service has failed, the restore is not reported as failed (it does
\* not end in Failed with a non-zero status) and the unpacked files are in
\* place.
C12_RestartFailureIsWarning ==
    \A p \in Procs :
      proc[p].error = "restart" =>
        /\ proc[p].stage # "Failed"
        /\ proc[p].exit # 1
        /\ \A m \in Range(store[proc[p].r_path].members) : m.arcname \in DOMAIN fsys

\* the stage a failure is reported for
StageOfError(err) ==
    CASE err = "decrypt" -> "Decrypting"
      [] err = "unpack" -> "Unpacking"
      [] err = "restart" -> "RestartingService"
      [] OTHER -> "Idle"

\* the steps a restore may take from one stage to the next
StageStep(p) ==
    LET a == proc[p].stage
        b == proc'[p].stage
        encrypted == endswith_gpg(proc[p].args.restore)
    IN a # b =>
         /\ <<a, b>> \in { <<"Idle", "Decrypting">>, <<"Idle", "Unpacking">>,
                           <<"Decrypting", "Unpacking">>, <<"Decrypting", "Failed">>,
                           <<"Unpacking", "RestartingService">>, <<"Unpacking", "Failed">>,
                           <<"RestartingService", "Done">>,
                           <<"RestartingService", "Failed">> }
         /\ b = "Decrypting" => encrypted
         /\ b = "Unpacking" =>
              IF encrypted THEN a = "Decrypting" /\ proc'[p].dec = "ok"
              ELSE a = "Idle"
         /\ b = "RestartingService" =>
              /\ proc[p].r_path \in DOMAIN store
              /\ proc[p].extracted = Len(store[proc[p].r_path].members)
              /\ \A m \in Range(store[proc[p].r_path].members) : m.arcname \in DOMAIN fsys
         /\ b = "Failed" =>
              /\ StageOfError(proc'[p].error) = a
              /\ proc'[p].exit = 1
         /\ b = "Done" => restarts' = restarts + 1

\* C18: a restore moves from Idle to Decrypting only for an artifact with the
\* encrypted suffix, enters Unpacking only when decryption has succeeded or
\* was not needed, enters RestartingService only when every member has been
\* unpacked, and ends in Done or in Failed with the stage it was in when the
\* first failure occurred; no other step between stages is taken.
C18_RestoreStageOrder == [][\A p \in Procs : StageStep(p)]_vars

\* a restore of an encrypted artifact has passed through every stage
C18_Witness ==
    \E p \in Procs :
      /\ proc[p].stage = "Done"
      /\ proc[p].dec = "ok"
      /\ proc[p].extracted > 0

\* the steps the stages of a backup run may take
WorkflowStep(p) ==
    LET a == proc[p]
        b == proc'[p]
    IN /\ a.built # b.built =>
            a.enc = "none" /\ a.upl = "none" /\ a.rot = "none"
       /\ a.enc # b.enc =>
            /\ config.encryption.enabled
            /\ a.built /\ a.upl = "none" /\ a.rot = "none"
       /\ a.upl # b.upl =>
            /\ config.remote_backup.enabled
            /\ a.built /\ a.enc # "written" /\ a.rot = "none"
       /\ (a.rot = "none" /\ b.rot # "none" /\ a.caller = "workflow") =>
            /\ a.built /\ a.returned /\ a.error = "none"
            /\ a.enc # "written"

\* C19: in a run of the workflow the archive is built before encryption is
\* invoked, encryption ends before the upload is invoked, and rotation starts
\* only after create_backup has returned; encryption is invoked only with
\* encryption.enabled and the upload only with remote_backup.enabled; rotation
\* never starts when the archive was not built.
C19_WorkflowStageOrder == [][\A p \in Procs : WorkflowStep(p)]_vars

\* a workflow has run all four stages
C19_Witness ==
    \E p \in Procs :
      /\ proc[p].wf = "completed"
      /\ proc[p].enc = "ok"
      /\ proc[p].upl # "none"
      /\ proc[p].rot = "finished"

\* C17: every file in the store under a final artifact name
\* (kamailio_backup_<kind>_<timestamp>.tar.gz) is a completely written and
\* closed archive.
C17_FinalNameIsClosedArchive ==
    \A f \in DOMAIN store :
      (Len(f) = 4 /\ f[4] = "tar.gz") => store[f].sealed

\* C20: when the archive has been closed, each distinct listed component that
\* exists is a member of the artifact exactly once.
C20_ComponentsDeduplicated ==
    \A p \in Procs :
      (proc[p].pc = "cb_encrypt" /\ proc[p].built) =>
        LET members == store[proc[p].backup_path].members IN
          \A c \in Range(config.components_to_backup) \cap exists :
            Cardinality({ k \in DOMAIN members : members[k].src = c }) = 1

(***************************************************************************)
(* __init__ and load_recovery_config.                                      *)
(***************************************************************************)
DefaultRetention == 30

\* _get_default_config
DefaultConfig == BaseConfig(DefaultRetention)

\* _validate_config: required_keys
RequiredKeys ==
    {"backup_directory", "backup_retention_days", "backup_type", "components_to_backup"}

\* self.config before load_recovery_config has returned
NotLoaded == [loaded |-> FALSE]

\* lines 58-71: open raises FileNotFoundError for a missing file; json.load
\* raises JSONDecodeError for text that is not JSON and, reading the file,
\* UnicodeDecodeError for bytes that are no text in the locale's encoding;
\* _validate_config raises ValueError for a document that lacks a required
\* key.  FileNotFoundError and JSONDecodeError are caught and give the defaults
load_recovery_config(file) ==
    CASE file.state = "missing" -> [raised |-> FALSE, config |-> DefaultConfig]
      [] file.state = "malformed" -> [raised |-> FALSE, config |-> DefaultConfig]
      [] file.state = "json" /\ RequiredKeys \subseteq file.keys ->
           [raised |-> FALSE, config |-> file.content]
      [] OTHER -> [raised |-> TRUE, config |-> NotLoaded]

\* lines 44-49: __init__ loads the configuration; an exception leaves main
init_recovery(p) ==
    /\ proc[p].pc = "init"
    /\ LET loaded == load_recovery_config(proc[p].config_file) IN
       IF loaded.raised
       THEN /\ proc' = Upd(p, Raise(proc[p], "config"))
            /\ UNCHANGED config
       ELSE /\ proc' = Upd(p, [proc[p] EXCEPT !.pc = "main"])
            /\ config' = loaded.config
    /\ UNCHANGED <<exists, store, fsys, restarts, now>>

\* the files an invocation can find at config_path
ConfigFiles ==
    { [state |-> st, keys |-> ks, content |-> BaseConfig(r)] :
        st \in {"missing", "malformed", "undecodable", "json"},
        ks \in {RequiredKeys} \cup { RequiredKeys \ {k} : k \in RequiredKeys },
        r \in 0..MaxRetention }

\* --rotate, from the construction of the object on
InitLoad ==
    /\ config = NotLoaded
    /\ exists = Range(DefaultComponents)
    /\ store \in OldStores(1)
    /\ fsys = NoFiles
    /\ restarts = 0
    /\ now = StartTime
    /\ \E file \in ConfigFiles :
         proc = [p \in Procs |->
                   IF p = "p1"
                   THEN [NewProc([NoArgs EXCEPT !.rotate = TRUE]) EXCEPT
                            !.pc = "init", !.config_file = file]
                   ELSE OffProc]

NextLoad ==
    \/ Tick
    \/ \E p \in Procs : init_recovery(p)
    \/ \E p \in Procs : main(p)
    \/ \E p \in Procs : rotate_start(p)
    \/ \E p \in Procs : rotate_stat(p)
    \/ \E p \in Procs : rotate_remove(p)

SpecLoad == InitLoad /\ [][NextLoad]_vars

\* a file that is not valid JSON: text that does not parse, or bytes that are
\* no text
NotJson == {"malformed", "undecodable"}

\* C13: when the file at config_path is missing or is not valid JSON, the load
\* does not raise: the configuration is the built-in default (retention 30
\* days, type full, the three default components, remote backup disabled,
\* encryption enabled) and the invocation goes on.
C13_DefaultsOnMissingOrMalformed ==
    \A p \in Procs :
      (proc[p].config_file.state \in {"missing"} \cup NotJson /\ proc[p].pc # "init") =>
        /\ proc[p].error = "none" /\ proc[p].exit # 1
        /\ config.backup_retention_days = DefaultRetention
        /\ config.backup_type = "full"
        /\ config.components_to_backup = <<EtcKamailio, VarLibKamailio, VarLogKamailio>>
        /\ ~config.remote_backup.enabled
        /\ config.encryption.enabled

(***************************************************************************)
(* Several invocations: one after the other, or at the same time.          *)
(***************************************************************************)
\* the operator's shell or scheduler starts the next invocation when the
\* ones before it have exited
launch(p) ==
    /\ proc[p].pc = "pending"
    /\ \A q \in Procs \ {p} : proc[q].pc = "exit"
    /\ proc' = Upd(p, [proc[p] EXCEPT !.pc = "main"])
    /\ UNCHANGED <<config, exists, store, fsys, restarts, now>>

Rotating == NewProc([NoArgs EXCEPT !.rotate = TRUE])
BackingUp == NewProc([NoArgs EXCEPT !.backup = TRUE])

\* --rotate, and --rotate again when the first has exited
InitRotateTwice ==
    /\ config \in { BaseConfig(r) : r \in 0..MaxRetention }
    /\ exists = Range(DefaultComponents)
    /\ store \in OldStores(MaxEntries - 1)
    /\ fsys = NoFiles
    /\ restarts = 0
    /\ now = StartTime
    /\ proc = [p \in Procs |->
                 IF p = "p1" THEN Rotating ELSE [Rotating EXCEPT !.pc = "pending"]]

NextRotateTwice ==
    \/ Tick
    \/ \E p \in Procs : launch(p)
    \/ \E p \in Procs : main(p)
    \/ \E p \in Procs : rotate_start(p)
    \/ \E p \in Procs : rotate_stat(p)
    \/ \E p \in Procs : rotate_remove(p)

SpecRotateTwice == InitRotateTwice /\ [][NextRotateTwice]_vars

\* two --rotate at the same time
InitTwoRotate ==
    /\ config \in { BaseConfig(r) : r \in 0..MaxRetention }
    /\ exists = Range(DefaultComponents)
    /\ store \in OldStores(MaxEntries)
    /\ fsys = NoFiles
    /\ restarts = 0
    /\ now = StartTime
    /\ proc = [p \in Procs |-> Rotating]

SpecTwoRotate == InitTwoRotate /\ [][NextRotate]_vars

\* the configurations of the runs that share the store with another invocation
SharedConfigs ==
    { [ BaseConfig(r) EXCEPT !.components_to_backup = <<EtcKamailio, EtcHosts>>,
                             !.encryption = e ] :
        r \in 0..MaxRetention,
        e \in { x \in EncryptionSettings : x.method = "gpg" } }

\* --backup or the workflow, and --rotate at the same time
InitBackupRotate ==
    /\ config \in SharedConfigs
    /\ exists = Range(config.components_to_backup)
    /\ store \in OldStores(1)
    /\ fsys = NoFiles
    /\ restarts = 0
    /\ now = StartTime
    /\ \E args \in { NoArgs, [NoArgs EXCEPT !.backup = TRUE] } :
         proc = [p \in Procs |-> IF p = "p1" THEN NewProc(args) ELSE Rotating]

SpecBackupRotate == InitBackupRotate /\ [][NextBackup]_vars

\* two --backup at the same time
InitTwoBackups ==
    /\ config \in SharedConfigs
    /\ exists = Range(config.components_to_backup)
    /\ store = NoFiles
    /\ fsys = NoFiles
    /\ restarts = 0
    /\ now = StartTime
    /\ proc = [p \in Procs |-> BackingUp]

NextTwoBackups ==
    \/ Tick
    \/ \E p \in Procs : main(p)
    \/ \E p \in Procs : create_backup(p)
    \/ \E p \in Procs : cb_open(p)
    \/ \E p \in Procs : cb_walk(p)
    \/ \E p \in Procs : cb_close(p)
    \/ \E p \in Procs : cb_encrypt(p)
    \/ \E p \in Procs : cb_remove(p)
    \/ \E p \in Procs : cb_upload(p)

SpecTwoBackups == InitTwoBackups /\ [][NextTwoBackups]_vars

(***************************************************************************)
(* Rotation run twice in succession.                                       *)
(***************************************************************************)
Ended(p) == proc[p].rot \in {"finished", "aborted"}
Eligible(p) == { e \in proc[p].listing : e.mtime < ClaimedCutoff(p) }

\* C11 as stated: of two rotation passes run one after the other, the first
\* removes every entry strictly older than the cutoff and the second removes
\* none.
C11_SecondPassRemovesNothing ==
    (Ended("p1") /\ Ended("p2")) =>
        /\ proc["p1"].removed = Eligible("p1")
        /\ proc["p2"].removed = {}

\* C11 amended: of two rotation passes run one after the other, a first pass
\* that meets no failure removes every entry strictly older than its cutoff;
\* the second pass removes only entries strictly older than its own cutoff
\* that the first pass left, either because they were not yet older than the
\* first cutoff or because the first pass stopped at a failure; after a first
\* pass without failure and with the same cutoff the second removes none.
C11_SecondPassRemovesOnlyLeftovers ==
    (Ended("p1") /\ Ended("p2")) =>
        /\ proc["p1"].rot = "finished" => proc["p1"].removed = Eligible("p1")
        /\ \A e \in proc["p2"].removed :
              /\ e.mtime < ClaimedCutoff("p2")
              /\ e \notin proc["p1"].removed
              /\ \/ ~ (e.mtime < ClaimedCutoff("p1"))
                 \/ proc["p1"].rot = "aborted"
        /\ (proc["p1"].rot = "finished" /\ ClaimedCutoff("p2") = ClaimedCutoff("p1"))
              => proc["p2"].removed = {}

\* both passes ran to their end at the same clock reading, the first removed
\* something, and the second found entries left and removed none
C11_Witness ==
    /\ proc["p1"].rot = "finished" /\ proc["p2"].rot = "finished"
    /\ proc["p1"].removed # {}
    /\ proc["p2"].pass_now = proc["p1"].pass_now
    /\ proc["p2"].listing # {}
    /\ proc["p2"].removed = {}

(***************************************************************************)
(* Rotation beside a backup creation.                                      *)
(***************************************************************************)
\* the names under which the artifact of a run is in the store
ArtifactNames(p) == { proc[p].backup_path, gpg_output(proc[p].backup_path) }

\* no rotation pass has removed the artifact of the backup run p
ArtifactNotRotated(p) ==
    \A q \in Procs : Names(proc[q].removed) \cap ArtifactNames(p) = {}

\* C14 as stated: for every retentionDays >= 0, no rotation pass, run at the
\* same time as a backup creation or after it in the same workflow run, ever
\* deletes the artifact that this backup is creating or has created.
C14_RotationSparesFreshArtifact ==
    \A p \in Procs :
      proc[p].backup_path # NoPath => ArtifactNotRotated(p)

\* the passes that have begun so far began less than retentionDays after the
\* invocations were started
WithinRetention ==
    \A q \in Procs :
      proc[q].rot # "none" =>
        proc[q].pass_now - StartTime < config.backup_retention_days * TicksPerDay

\* C14 amended: for every retentionDays >= 1, a rotation pass that begins less
\* than retentionDays after the backup run was started, at the same time as the
\* backup creation or after it in the same workflow run, never deletes the
\* artifact that this backup is creating or has created.
C14_RotationSparesArtifactWithinRetention ==
    \A p \in Procs :
      (/\ proc[p].backup_path # NoPath
       /\ config.backup_retention_days >= 1
       /\ WithinRetention) => ArtifactNotRotated(p)

\* with a retention of a day or more, a rotation pass of another invocation
\* has listed the artifact of a backup run while that run was going on, has
\* run to its end, and the artifact is in the store
C14_Witness ==
    \E p, q \in Procs :
      /\ p # q
      /\ config.backup_retention_days >= 1
      /\ WithinRetention
      /\ proc[p].built
      /\ proc[q].rot = "finished"
      /\ Names(proc[q].listing) \cap ArtifactNames(p) # {}
      /\ ArtifactPresent(p)

(***************************************************************************)
(* Two rotation passes at the same time.                                   *)
(***************************************************************************)
\* C15: when two rotation passes have run at the same time over one store and
\* the only failures they met were entries the other pass had already removed,
\* then once both have ended every entry strictly older than the cutoff of a
\* pass that listed it is gone from the store, and every removed entry was
\* strictly older than the cutoff of the pass that removed it.
C15_ConcurrentPassesTolerateGone ==
    (\A p \in Procs : Ended(p) /\ proc[p].denied = {}) =>
        \A p \in Procs :
          /\ \A e \in Eligible(p) : e.name \notin DOMAIN store
          /\ \A e \in proc[p].removed : e.mtime < ClaimedCutoff(p)

(***************************************************************************)
(* Two backup runs at the same time.                                       *)
(***************************************************************************)
\* C16: two backup runs that have both chosen their artifact path have
\* chosen different paths, also when they started within one clock second.
C16_DistinctArtifactPaths ==
    \A p, q \in Procs :
      (p # q /\ proc[p].backup_path # NoPath /\ proc[q].backup_path # NoPath)
         => proc[p].backup_path # proc[q].backup_path

====
